---- MODULE Spec2Model ----
(***************************************************************************)
(* A model of warpcmap.py: warp_colormap and its three plotting adapters   *)
(* (wimshow, wpcolormesh, wpcolor).                                        *)
(*                                                                         *)
(* Floating point numbers are modelled as fixed-point numbers: the integer *)
(* v stands for the real v / Scale.  The shape parameter alpha lives on    *)
(* the finer grid of multiples of 1 / AlphaDen, which plays the role of    *)
(* the root finder's x-tolerance.  NaN is a value of its own for which     *)
(* every comparison is false.                                              *)
(***************************************************************************)
EXTENDS Integers, Sequences, FiniteSets

\* ------------------------------------------------------------------------
\* Bounds of the model
\* ------------------------------------------------------------------------

\* largest valid (integer) beta a caller passes
MaxBeta == 3
\* largest Nentries a caller passes
MaxN == 5
\* largest data value handed to an adapter
MaxData == 4

\* ------------------------------------------------------------------------
\* Fixed-point reals
\* ------------------------------------------------------------------------

Scale == 2^15
Half == Scale \div 2
\* alpha = aNum / AlphaDen; AlphaDen must be a power of two (RootPow)
AlphaDen == 2^6
\* +infinity; -infinity is 0 - Inf
Inf == 2^30
NaN == 0 - (2^30 + 1)

IsNaN(v) == v = NaN

\* a < b on floats: false when either side is NaN
Lt(a, b) == ~IsNaN(a) /\ ~IsNaN(b) /\ a < b

Abs(v) == IF v < 0 THEN 0 - v ELSE v

\* a * b for a, b in [0, 1], rounded down
Mul(a, b) == (a * b) \div Scale

\* the largest r with r * r <= v * Scale, built bit by bit from the top
RECURSIVE SqrtBits(_, _, _)
SqrtBits(v, r, bit) ==
    IF bit = 0 THEN r
    ELSE IF (r + bit) * (r + bit) <= v * Scale
         THEN SqrtBits(v, r + bit, bit \div 2)
         ELSE SqrtBits(v, r, bit \div 2)

\* sqrt(v) for v in [0, 1]
Sqrt(v) == IF v = Scale THEN Scale ELSE SqrtBits(v, 0, Scale \div 2)

\* x^n for a natural n, by repeated squaring
RECURSIVE PowInt(_, _)
PowInt(x, n) ==
    IF n = 0 THEN Scale
    ELSE LET h == PowInt(x, n \div 2)
             h2 == Mul(h, h)
         IN  IF n % 2 = 1 THEN Mul(h2, x) ELSE h2

\* x^(k/q) for 0 <= k < q, q a power of two, by repeated square roots
RECURSIVE RootPow(_, _, _)
RootPow(x, k, q) ==
    IF k = 0 THEN Scale
    ELSE LET h == Sqrt(x)
         IN  IF 2 * k >= q
             THEN Mul(h, RootPow(h, k - (q \div 2), q \div 2))
             ELSE RootPow(h, k, q \div 2)

\* x^(aNum / AlphaDen)
Pow(x, aNum) == Mul(PowInt(x, aNum \div AlphaDen), RootPow(x, aNum % AlphaDen, AlphaDen))

\* sum over j in 0 .. b-1 of the terms x^a * (a)_j / j! * (1-x)^j,
\* each obtained from the one before it
RECURSIVE BetaSeries(_, _, _, _, _)
BetaSeries(aNum, b, x, j, term) ==
    IF j = b THEN 0
    ELSE term + BetaSeries(aNum, b, x, j + 1,
                   (Mul(term, Scale - x) * (aNum + j * AlphaDen))
                       \div ((j + 1) * AlphaDen))

\* scipy.special.betainc(a, b, x), the regularized incomplete beta function
\* I_x(a, b), for a = aNum / AlphaDen >= 0, an integer b and x in [0, 1]:
\* NaN outside the domain (b <= 0, x NaN), exactly 0 at x = 0 and 1 at x = 1
betainc(aNum, b, x) ==
    IF IsNaN(x) \/ b <= 0 THEN NaN
    ELSE IF x = 0 THEN 0
    ELSE IF x = Scale THEN Scale
    ELSE LET s == BetaSeries(aNum, b, x, 0, Pow(x, aNum))
         IN  IF s > Scale THEN Scale ELSE s

\* ------------------------------------------------------------------------
\* Library calls of warp_colormap
\* ------------------------------------------------------------------------

\* the bracket handed to root_scalar, (1e-10, 1e2): on the alpha grid the
\* lower end 1e-10 is the grid point 0
BracketLo == 0
BracketHi == 100
\* the bracketing solver's iteration cap (its default, the call passes none)
MaxIter == 100

\* objective with z and 0.5 exchanged: it solves w(0.5) = z
objectiveSwapped(beta, z, aNum) ==
    LET v == betainc(aNum, beta, Half)
    IN  IF IsNaN(v) \/ IsNaN(z) THEN NaN ELSE v - z

\* objective(alpha) = betainc(alpha, beta, z) - 0.5
objective(beta, z, aNum) ==
    LET v == betainc(aNum, beta, z)
    IN  IF IsNaN(v) THEN NaN ELSE v - Half

\* f(a) * f(b) > 0
SameSign(u, v) == (Lt(0, u) /\ Lt(0, v)) \/ (Lt(u, 0) /\ Lt(v, 0))

\* the RootResults object of root_scalar
RootResults(root, converged) ==
    [raised |-> FALSE, root |-> root, converged |-> converged]

\* the end of the bracket with the smaller |f|
Best(lo, flo, hi, fhi) == IF Abs(fhi) < Abs(flo) THEN hi ELSE lo

\* the bracketing solver's loop (root_scalar picks brentq for a bracket),
\* taken as a bisection: halve the bracket [lo, hi], keeping a sign change
\* in it, until it is one grid step wide (the x-tolerance) or the iteration
\* cap is reached
RECURSIVE Bisect(_, _, _, _, _, _, _)
Bisect(beta, z, lo, flo, hi, fhi, iter) ==
    IF hi - lo <= 1 THEN RootResults(Best(lo, flo, hi, fhi), TRUE)
    ELSE IF iter >= MaxIter THEN RootResults(Best(lo, flo, hi, fhi), FALSE)
    ELSE LET mid == (lo + hi) \div 2
             fm == objective(beta, z, mid)
         IN  IF IsNaN(fm) THEN RootResults(mid, FALSE)
             ELSE IF fm = 0 THEN RootResults(mid, TRUE)
             ELSE IF SameSign(fm, flo)
                  THEN Bisect(beta, z, mid, fm, hi, fhi, iter + 1)
                  ELSE Bisect(beta, z, lo, flo, mid, fm, iter + 1)

\* root_scalar without the check for a sign change in the bracket
root_scalarNoSignCheck(beta, z) ==
    LET lo == BracketLo * AlphaDen
        hi == BracketHi * AlphaDen
        flo == objective(beta, z, lo)
        fhi == objective(beta, z, hi)
    IN  IF IsNaN(flo) THEN RootResults(lo, FALSE)
        ELSE IF IsNaN(fhi) THEN RootResults(hi, FALSE)
        ELSE Bisect(beta, z, lo, flo, hi, fhi, 0)

\* root_scalar(objective, bracket=(1e-10, 1e2)): raises ValueError when the
\* objective has the same sign at both ends; a NaN objective or an exhausted
\* iteration cap does not raise, it is reported in the result's converged flag
root_scalar(beta, z) ==
    LET lo == BracketLo * AlphaDen
        hi == BracketHi * AlphaDen
        flo == objective(beta, z, lo)
        fhi == objective(beta, z, hi)
    IN  IF IsNaN(flo) THEN RootResults(lo, FALSE)
        ELSE IF IsNaN(fhi) THEN RootResults(hi, FALSE)
        ELSE IF flo = 0 THEN RootResults(lo, TRUE)
        ELSE IF fhi = 0 THEN RootResults(hi, TRUE)
        ELSE IF SameSign(flo, fhi)
             THEN [raised |-> TRUE, root |-> lo, converged |-> FALSE]
             ELSE Bisect(beta, z, lo, flo, hi, fhi, 0)

\* linspace without its end point: np.linspace(0, 1, N, endpoint=False)[n]
linspaceNoEndpoint(N, n) == (n * Scale) \div N

\* linspace from 1 down to 0: np.linspace(1, 0, N)[n]
linspaceDescending(N, n) == IF N = 1 THEN Scale ELSE ((N - 1 - n) * Scale) \div (N - 1)

\* np.linspace(0, 1, N)[n], n in 0 .. N-1
linspace(N, n) == IF N = 1 THEN 0 ELSE (n * Scale) \div (N - 1)

\* the names the colormap registry resolves
Registry == {"gray", "viridis"}
\* rcParams['image.cmap']
DefaultCmap == "viridis"

\* an optional value: None, or Some(v)
None == <<>>
Some(v) == <<v>>

\* get_cmap falling back to the default colormap for an unknown name
get_cmapFallback(name) == IF name \in Registry THEN Some(name) ELSE Some(DefaultCmap)

\* cm.get_cmap(name): the registered colormap, or no value (it raises)
get_cmap(name) == IF name \in Registry THEN Some(name) ELSE None

\* basemap(x): the colour the colormap fn gives at x, an opaque value
Colour(fn, x) == [map |-> fn, at |-> x]
\* a row of np.zeros((Nentries, 4))
ZeroRow == [map |-> "zeros", at |-> 0]

\* the row assignment with its index off by one
SetRowOffByOne(rgba, n, colour) == [rgba EXCEPT ![n] = colour]

\* rgba[n,:] = colour, for the 0-based n
SetRow(rgba, n, colour) == [rgba EXCEPT ![n + 1] = colour]

\* ListedColormap(rgba): the table of the rows of rgba
ListedColormap(rgba) == rgba

\* the range check with its ends let through: 0 <= z <= 1
ValidZInclusive(z) == ~IsNaN(z) /\ 0 <= z /\ z <= Scale

\* 0 < z < 1
ValidZ(z) == Lt(0, z) /\ Lt(z, Scale)

\* ------------------------------------------------------------------------
\* State
\* ------------------------------------------------------------------------

VARIABLES
    pc,         \* where the running call is
    caller,     \* "direct", or the adapter that calls warp_colormap
    args,       \* warp_colormap's parameters: basemap, z, beta, Nentries
    given,      \* the adapter's arguments vmin, vmax, vmid and its data's range
    plot,       \* the adapter's vmin, vmax, vmid after defaulting
    basemapFn,  \* the colormap callable basemap is resolved to
    soln,       \* the root finder's result
    rgba,       \* the array of colours being filled
    n,          \* the loop's index
    xs,         \* the warped coordinates basemap was evaluated at, in order
    newmap,     \* the local variable newmap, None while it is unbound
    warpCalls,  \* calls of warp_colormap so far
    lookups,    \* calls of cm.get_cmap so far
    rootfinds,  \* calls of root_scalar so far
    rendered,   \* what the renderer was called with, None before
    result      \* how the call ended

vars == <<pc, caller, args, given, plot, basemapFn, soln, rgba, n, xs, newmap,
          warpCalls, lookups, rootfinds, rendered, result>>

NoArgs == [basemap |-> [isStr |-> TRUE, id |-> ""], z |-> 0, beta |-> 0, Nentries |-> 0]
NoGiven == [vmin |-> None, vmax |-> None, vmid |-> None, data |-> <<0, 0>>]
NoPlot == [vmin |-> 0, vmax |-> 0, vmid2 |-> 0]
NoResult == [status |-> "none", error |-> "", table |-> <<>>]

Raised(error) == [status |-> "raised", error |-> error, table |-> <<>>]
Returned(table) == [status |-> "returned", error |-> "", table |-> table]

\* the inputs of a direct call
ZValues ==
    { 0 - (Scale \div 4), 0, Scale \div 8, Scale \div 4, Half, (3 * Scale) \div 4,
      (7 * Scale) \div 8, (63 * Scale) \div 64, Scale - (Scale \div 256), Scale,
      (3 * Scale) \div 2, NaN }
Betas == {0 - 1} \cup (1 .. MaxBeta)
Basemaps ==
    { [isStr |-> TRUE, id |-> "gray"],
      [isStr |-> TRUE, id |-> "nonexistent_map_name"],
      [isStr |-> FALSE, id |-> "grayscale_ramp"] }

\* the inputs of an adapter call
Adapters == {"wimshow", "wpcolormesh", "wpcolor"}
CmapArgs == {None, Some("gray"), Some("nonexistent_map_name")}
VminArgs == {None, Some(0), Some(1), Some(MaxData)}
VmaxArgs == {None, Some(1), Some(MaxData)}
VmidArgs == {None} \cup {Some(v) : v \in 0 .. MaxData}
\* the minimum and the maximum of the data array
DataRanges == {<<0, MaxData>>, <<1, 1>>}
\* beta and Nentries, which an adapter hands on as they are
AdapterBetas == {1, 2}
AdapterEntries == {3}

Init ==
    /\ pc = "idle"
    /\ caller = "none"
    /\ args = NoArgs
    /\ given = NoGiven
    /\ plot = NoPlot
    /\ basemapFn = None
    /\ soln = None
    /\ rgba = <<>>
    /\ n = 0
    /\ xs = <<>>
    /\ newmap = None
    /\ warpCalls = 0
    /\ lookups = 0
    /\ rootfinds = 0
    /\ rendered = None
    /\ result = NoResult

\* ------------------------------------------------------------------------
\* warp_colormap
\* ------------------------------------------------------------------------

\* an exception leaves warp_colormap and, no caller catching it, the adapter
Raise(error) ==
    /\ pc' = "done"
    /\ result' = Raised(error)

\* a caller calls warp_colormap(basemap, z, beta, Nentries)
CallWarp(basemap, z, beta, N) ==
    /\ pc = "idle"
    /\ pc' = "validate"
    /\ caller' = "direct"
    /\ args' = [basemap |-> basemap, z |-> z, beta |-> beta, Nentries |-> N]
    /\ warpCalls' = warpCalls + 1
    /\ UNCHANGED <<given, plot, basemapFn, soln, rgba, n, xs, newmap, lookups,
                   rootfinds, rendered, result>>

\* if not (0 < z < 1): raise ValueError('z must be between 0 and 1')
Validate ==
    /\ pc = "validate"
    /\ IF ValidZ(args.z)
       THEN pc' = "resolve" /\ UNCHANGED result
       ELSE Raise("InvalidArgument")
    /\ UNCHANGED <<caller, args, given, warpCalls, plot, basemapFn, soln, rgba, n, xs, newmap,
                   lookups, rootfinds, rendered>>

\* if isinstance(basemap, str): basemap = cm.get_cmap(basemap)
Resolve ==
    /\ pc = "resolve"
    /\ IF args.basemap.isStr
       THEN /\ lookups' = lookups + 1
            /\ IF get_cmap(args.basemap.id) = None
               THEN Raise("LookupFailure") /\ UNCHANGED basemapFn
               ELSE /\ basemapFn' = get_cmap(args.basemap.id)
                    /\ pc' = "solve"
                    /\ UNCHANGED result
       ELSE /\ basemapFn' = Some(args.basemap.id)
            /\ pc' = "solve"
            /\ UNCHANGED <<lookups, result>>
    /\ UNCHANGED <<caller, args, given, warpCalls, plot, soln, rgba, n, xs, newmap, rootfinds,
                   rendered>>

\* soln = root_scalar(objective, bracket=(1e-10, 1e2)); alpha = soln.root;
\* rgba = np.zeros((Nentries, 4))
Solve ==
    /\ pc = "solve"
    /\ rootfinds' = rootfinds + 1
    /\ LET r == root_scalar(args.beta, args.z)
       IN  IF r.raised
           THEN Raise("NumericalFailure") /\ UNCHANGED <<soln, rgba>>
           ELSE /\ soln' = Some(r)
                /\ rgba' = [i \in 1 .. args.Nentries |-> ZeroRow]
                /\ pc' = "loop"
                /\ UNCHANGED result
    /\ UNCHANGED <<caller, args, given, warpCalls, plot, basemapFn, n, xs, newmap, lookups,
                   rendered>>

\* one round of the loop over enumerate(np.linspace(0, 1, Nentries)):
\* x = betainc(alpha, beta, y); rgba[n,:] = basemap(x);
\* newmap = ListedColormap(rgba)
Loop ==
    /\ pc = "loop"
    /\ n < args.Nentries
    /\ LET y == linspace(args.Nentries, n)
           x == betainc(soln[1].root, args.beta, y)
           filled == SetRow(rgba, n, Colour(basemapFn[1], x))
       IN  /\ rgba' = filled
           /\ xs' = Append(xs, x)
           /\ newmap' = Some(ListedColormap(filled))
    /\ n' = n + 1
    /\ UNCHANGED <<pc, caller, args, given, warpCalls, plot, basemapFn, soln, lookups, rootfinds,
                   rendered, result>>

\* return newmap: to the caller, or into the adapter's renderer call; a
\* newmap no round of the loop has bound is an UnboundLocalError
Return ==
    /\ pc = "loop"
    /\ n = args.Nentries
    /\ IF newmap = None
       THEN Raise("UnboundLocalError")
       ELSE IF caller = "direct"
            THEN pc' = "done" /\ result' = Returned(newmap[1])
            ELSE pc' = "render" /\ UNCHANGED result
    /\ UNCHANGED <<caller, args, given, warpCalls, plot, basemapFn, soln, rgba, n, xs, newmap,
                   lookups, rootfinds, rendered>>

\* ------------------------------------------------------------------------
\* The adapters wimshow, wpcolormesh and wpcolor
\* ------------------------------------------------------------------------

\* a missing vmin / vmax is the data's minimum / maximum
DefaultVmin(vmin, data) == IF vmin = None THEN data[1] ELSE vmin[1]
DefaultVmax(vmax, data) == IF vmax = None THEN data[2] ELSE vmax[1]
\* twice vmid, a missing vmid taken as half the range, (vmax - vmin)/2
DefaultVmid2HalfRange(vmid, vmin, vmax) == IF vmid = None THEN vmax - vmin ELSE 2 * vmid[1]

\* twice vmid: a missing vmid is (vmin + vmax)/2
DefaultVmid2(vmid, vmin, vmax) == IF vmid = None THEN vmin + vmax ELSE 2 * vmid[1]

\* num / den as a fixed-point number, den # 0
Quotient(num, den) ==
    IF den > 0 THEN (num * Scale) \div den ELSE ((0 - num) * Scale) \div (0 - den)

\* z = (vmid - vmin)/(vmax - vmin), with vmid given doubled.  Dividing by
\* zero raises ZeroDivisionError on the caller's own (Python) numbers and
\* gives NaN or an infinity once vmin or vmax is the data's (a numpy scalar).
ZeroDivision(vminArg, vmaxArg, vmin, vmax) ==
    vmax = vmin /\ vminArg # None /\ vmaxArg # None

AdapterZ(vmid2, vmin, vmax) ==
    IF vmax # vmin THEN Quotient(vmid2 - 2 * vmin, 2 * (vmax - vmin))
    ELSE IF vmid2 = 2 * vmin THEN NaN
    ELSE IF vmid2 > 2 * vmin THEN Inf
    ELSE 0 - Inf

\* wimshow asserts a two-dimensional X; wpcolormesh and wpcolor take one or
\* three positional arguments.  shape is X's number of dimensions for
\* wimshow and the number of positional arguments for the other two.
ShapeError(kind, shape) ==
    IF kind = "wimshow"
    THEN IF shape = 2 THEN "" ELSE "AssertionError"
    ELSE IF shape \in {1, 3} THEN "" ELSE "TypeError"

\* an adapter's body up to its call of warp_colormap
CallAdapter(kind, shape, cmap, vminArg, vmaxArg, vmidArg, data, beta, N) ==
    /\ pc = "idle"
    /\ caller' = kind
    /\ given' = [vmin |-> vminArg, vmax |-> vmaxArg, vmid |-> vmidArg, data |-> data]
    /\ LET vmin == DefaultVmin(vminArg, data)
           vmax == DefaultVmax(vmaxArg, data)
           vmid2 == DefaultVmid2(vmidArg, vmin, vmax)
       IN  IF ShapeError(kind, shape) # ""
           THEN Raise(ShapeError(kind, shape)) /\ UNCHANGED <<args, plot, warpCalls>>
           ELSE /\ plot' = [vmin |-> vmin, vmax |-> vmax, vmid2 |-> vmid2]
                /\ IF ZeroDivision(vminArg, vmaxArg, vmin, vmax)
                   THEN Raise("ZeroDivisionError") /\ UNCHANGED <<args, warpCalls>>
                   ELSE /\ args' = [basemap |-> [isStr |-> TRUE,
                                                 id |-> IF cmap = None THEN DefaultCmap
                                                                       ELSE cmap[1]],
                                    z |-> AdapterZ(vmid2, vmin, vmax),
                                    beta |-> beta, Nentries |-> N]
                        /\ warpCalls' = warpCalls + 1
                        /\ pc' = "validate"
                        /\ UNCHANGED result
    /\ UNCHANGED <<basemapFn, soln, rgba, n, xs, newmap, lookups, rootfinds,
                   rendered>>

\* return ax.imshow(X, cmap=warped, vmin=vmin, vmax=vmax, **kwargs), and the
\* same with pcolormesh and pcolor
Render ==
    /\ pc = "render"
    /\ rendered' = Some([by |-> caller, cmap |-> newmap[1],
                         vmin |-> plot.vmin, vmax |-> plot.vmax])
    /\ result' = Returned(newmap[1])
    /\ pc' = "done"
    /\ UNCHANGED <<caller, args, given, warpCalls, plot, basemapFn, soln, rgba, n, xs, newmap,
                   lookups, rootfinds>>

\* ------------------------------------------------------------------------
\* Specification
\* ------------------------------------------------------------------------

Next ==
    \/ \E basemap \in Basemaps, z \in ZValues, beta \in Betas, N \in 0 .. MaxN :
          CallWarp(basemap, z, beta, N)
    \/ \E kind \in Adapters, shape \in 1 .. 3, cmap \in CmapArgs,
          vminArg \in VminArgs, vmaxArg \in VmaxArgs, vmidArg \in VmidArgs,
          data \in DataRanges, beta \in AdapterBetas, N \in AdapterEntries :
          CallAdapter(kind, shape, cmap, vminArg, vmaxArg, vmidArg, data, beta, N)
    \/ Validate
    \/ Resolve
    \/ Solve
    \/ Loop
    \/ Return
    \/ Render

Spec == Init /\ [][Next]_vars

\* ------------------------------------------------------------------------
\* Properties
\* ------------------------------------------------------------------------

\* the residual a solved alpha may leave: one step of the alpha grid
Tol == Scale \div AlphaDen

\* z is strictly between 0 and 1
ZInUnitInterval == args.z # NaN /\ 0 < args.z /\ args.z < Scale

UnknownName == args.basemap.isStr /\ args.basemap.id \notin Registry

\* C1: a call of warp_colormap whose z is not strictly between 0 and 1 ends,
\* as its first step, by raising InvalidArgument: no basemap lookup, no
\* root-find and no table construction has happened, and nothing is returned.
C1_InvalidZFailsFirst ==
    (warpCalls = 1 /\ pc # "validate" /\ ~ZInUnitInterval) =>
        /\ pc = "done"
        /\ result = Raised("InvalidArgument")
        /\ lookups = 0 /\ rootfinds = 0
        /\ basemapFn = None /\ soln = None
        /\ rgba = <<>> /\ xs = <<>> /\ newmap = None /\ rendered = None

C1_Witness ==
    /\ pc = "done" /\ warpCalls = 1 /\ caller = "direct"
    /\ args.z = Scale
    /\ result = Raised("InvalidArgument")

\* C2: for a valid z and beta > 0 the alpha the root-find hands back is
\* positive and betainc(alpha, beta, z) is within the tolerance of 0.5.
C2_RootMapsZToHalf ==
    (soln # None /\ args.beta > 0) =>
        /\ soln[1].root > 0
        /\ Abs(betainc(soln[1].root, args.beta, args.z) - Half) < Tol

C2_Witness ==
    /\ soln # None /\ soln[1].converged
    /\ args.beta = 3 /\ args.z = (7 * Scale) \div 8
    /\ result.status = "returned"

\* C3 as claimed: w(0.5) = z, the table's entry at the coordinate y = 0.5
\* (the middle entry of a table with an odd number of entries, at least 3) is
\* the base colormap at x = z, within the tolerance.
C3_MidEntryIsBaseAtZ ==
    (result.status = "returned" /\ args.beta > 0
        /\ args.Nentries >= 3 /\ args.Nentries % 2 = 1) =>
        LET mid == (args.Nentries + 1) \div 2
        IN  /\ result.table[mid] = Colour(basemapFn[1], xs[mid])
            /\ Abs(xs[mid] - args.z) < Tol

\* C3 as amended: w(z) = 0.5, the table's entry at the coordinate y = z,
\* when z is one of the table's Nentries >= 2 evenly spaced coordinates
\* (n - 1)/(Nentries - 1), is the base colormap at x = 0.5 within the
\* tolerance.
C3_EntryAtZIsBaseAtHalf ==
    (result.status = "returned" /\ args.beta > 0 /\ args.Nentries >= 2) =>
        \A i \in 1 .. args.Nentries :
            ((i - 1) * Scale = args.z * (args.Nentries - 1)) =>
                /\ result.table[i] = Colour(basemapFn[1], xs[i])
                /\ Abs(xs[i] - Half) < Tol

C3_Witness ==
    /\ result.status = "returned"
    /\ args.beta = 2 /\ args.z = Scale \div 4 /\ args.Nentries = 5
    /\ Abs(xs[2] - Half) < Tol
    /\ Abs(xs[3] - args.z) >= Tol

\* C4: a returned table has exactly Nentries entries, and its entry n is the
\* basemap at the warp of the n-th of Nentries evenly spaced points of [0, 1].
C4_TableIsWarpedResampling ==
    (result.status = "returned") =>
        /\ Len(result.table) = args.Nentries
        /\ \A i \in 1 .. args.Nentries :
              result.table[i] =
                  Colour(basemapFn[1],
                         betainc(soln[1].root, args.beta,
                                 IF args.Nentries = 1 THEN 0
                                 ELSE ((i - 1) * Scale) \div (args.Nentries - 1)))

C4_Witness ==
    /\ result.status = "returned" /\ caller = "direct"
    /\ args.Nentries = 4 /\ args.beta = 1 /\ args.z = Scale \div 8
    /\ Len(result.table) = 4

\* C5 as claimed: a call with a valid z and beta > 0 that got as far as
\* building its table with an entry count below 2 ends by raising
\* InvalidArgument, and returns no table.
C5_SmallNRejected ==
    (pc = "done" /\ warpCalls = 1 /\ soln # None /\ args.beta > 0
        /\ args.Nentries < 2) =>
        result = Raised("InvalidArgument")

\* C6: the warped coordinates the base colormap is evaluated at are
\* non-decreasing, for beta > 0.
C6_WarpedCoordinatesNonDecreasing ==
    (args.beta > 0) =>
        \A i \in 1 .. Len(xs) - 1 : xs[i] <= xs[i + 1]

C6_Witness ==
    /\ pc = "done" /\ Len(xs) = 5 /\ args.beta = 3
    /\ \A i \in 1 .. 4 : xs[i] < xs[i + 1]

\* C7: when the objective has the same sign at both ends of the bracket the
\* root-find raises NumericalFailure, which ends the call: no alpha is used
\* and no table is built, returned or rendered.
C7_NoSignChangeRaises ==
    (rootfinds = 1
        /\ SameSign(objective(args.beta, args.z, BracketLo * AlphaDen),
                    objective(args.beta, args.z, BracketHi * AlphaDen))) =>
        /\ pc = "done"
        /\ result = Raised("NumericalFailure")
        /\ soln = None /\ xs = <<>> /\ newmap = None /\ rendered = None

C7_Witness ==
    /\ pc = "done" /\ rootfinds = 1
    /\ args.z = (63 * Scale) \div 64 /\ args.beta = 2
    /\ result = Raised("NumericalFailure")

\* C8: a basemap name the registry cannot resolve ends the call with
\* LookupFailure when z is valid and with InvalidArgument, before any lookup,
\* when z is invalid; no root-find runs and no table is built or returned.
C8_UnknownNameFails ==
    (warpCalls = 1 /\ UnknownName) =>
        /\ rootfinds = 0 /\ soln = None /\ newmap = None
        /\ result.status # "returned"
        /\ (pc = "done") =>
              IF ZInUnitInterval
              THEN result = Raised("LookupFailure") /\ lookups = 1
              ELSE result = Raised("InvalidArgument") /\ lookups = 0
        /\ pc \in {"validate", "resolve", "done"}

C8_Witness ==
    /\ pc = "done" /\ UnknownName /\ args.z = Half
    /\ result = Raised("LookupFailure")

C10_UnconvergedBuildsNothing ==
    (soln # None /\ ~soln[1].converged) =>
        /\ newmap = None
        /\ result.status # "returned"

====
